---- MODULE Spec2Model ----
(***************************************************************************)
(* Task-Manager: an Express application that keeps a task list in one JSON *)
(* file.  The model follows one HTTP request at a time through the         *)
(* middleware chain registered in src/app.js (express.json, logger,        *)
(* express.static, the /tasks router, the 404 fallback, errorHandler) and  *)
(* runs the route handlers of src/routes/tasks.js against the data file of *)
(* src/db/db.js.  Every route handler is synchronous code, so a handler is *)
(* one atomic step.                                                        *)
(*                                                                         *)
(* JavaScript values are tagged: [t |-> type, v |-> sequence of one-char   *)
(* strings].  A JavaScript string is the sequence of its characters, an    *)
(* object is a function from its keys to tagged values.                    *)
(***************************************************************************)
EXTENDS Integers, Sequences, FiniteSets, TLC

VARIABLES
    store,     \* content of tasks.json: the sequence of task objects
    nextId,    \* number of identifiers uuidv4() has handed out, plus one
    updates,   \* number of updates PUT /tasks/:id has written
    pc,        \* middleware stage the request in flight is at; "idle" when there is none
    req,       \* the request in flight: method, path, params.id, query.completed, body
    hooked,    \* logger has registered its "finish" listener on the response
    res,       \* the response written for the request in flight
    sent,      \* number of responses written for the request in flight
    err,       \* the error handed to next(err) / thrown by a handler
    logLine,   \* the line the "finish" listener printed for the last response sent
    io,        \* what the file system did to the handler of the request in flight:
               \* "none" (file not touched yet), "ok", "noread" (readFileSync or
               \* JSON.parse threw), "nowrite" (writeFileSync threw)
    store0,    \* history: content of tasks.json when the request in flight arrived
    deleted,   \* history: the ids for which DELETE /tasks/:id has answered 200
    \* two connections served at the same time by the one server process
    cpc,       \* per connection: "idle", "json" (request sent, body not yet parsed),
               \* "read" (the handler is past readTasks() and before writeTasks())
    creq,      \* per connection: the request, and the newTask the handler built
    ctasks,    \* per connection: the array readTasks() returned to the handler
    cres,      \* per connection: status of the response to its last request, 0 if none yet
    seen,      \* history, per connection: content of tasks.json when its request was sent
    running,   \* the connection whose callback the JavaScript thread is running, 0 if none
    serial     \* history: the acknowledged changes applied one after another

\* the variables of the connections served at the same time
cvars == <<cpc, creq, ctasks, cres, seen, running, serial>>

vars == <<store, nextId, updates, pc, req, hooked, res, sent, err, logLine, io, store0, deleted,
          cpc, creq, ctasks, cres, seen, running, serial>>

-----------------------------------------------------------------------------
(* Bounds of the model *)

MaxWrites   == 3   \* calls of uuidv4() plus updates written by PUT /tasks/:id
MaxBodyKeys == 2   \* keys in a JSON request body

(* Program constants *)

MAX_TITLE_LENGTH == 100
MAX_DESC_LENGTH  == 500

-----------------------------------------------------------------------------
(* JavaScript values *)

Str(s)  == [t |-> "string", v |-> s]
Bool(b) == [t |-> "boolean", v |-> IF b THEN <<"true">> ELSE <<"false">>]
Num(c)  == [t |-> "number", v |-> <<c>>]
Null    == [t |-> "null", v |-> <<>>]
Undefined == [t |-> "undefined", v |-> <<>>]

IsStr(x) == x.t = "string"

\* obj[key], undefined when the key is missing
Get(obj, key) == IF key \in DOMAIN obj THEN obj[key] ELSE Undefined

\* JavaScript truthiness of a value (0 is the only number the model uses that is falsy)
Truthy(x) ==
    CASE x.t = "undefined" -> FALSE
      [] x.t = "null"      -> FALSE
      [] x.t = "string"    -> x.v # <<>>
      [] x.t = "boolean"   -> x.v = <<"true">>
      [] x.t = "number"    -> x.v # <<"0">>
      [] OTHER             -> TRUE

Rep(c, n) == [i \in 1..n |-> c]

WhiteSpace == {" ", "\t", "\n"}

\* String.prototype.trim: the text between the first and the last character
\* that is not white space
Trim(s) ==
    IF \A i \in 1..Len(s) : s[i] \in WhiteSpace THEN <<>>
    ELSE LET lo == CHOOSE i \in 1..Len(s) :
                     s[i] \notin WhiteSpace /\ \A j \in 1..(i - 1) : s[j] \in WhiteSpace
             hi == CHOOSE i \in 1..Len(s) :
                     s[i] \notin WhiteSpace /\ \A j \in (i + 1)..Len(s) : s[j] \in WhiteSpace
         IN  SubSeq(s, lo, hi)

\* { ...a, ...b }
Spread(a, b) ==
    [k \in DOMAIN a \cup DOMAIN b |-> IF k \in DOMAIN b THEN b[k] ELSE a[k]]

EmptyObj == [k \in {} |-> Null]

Digit == <<"1", "2", "3", "4", "5", "6", "7", "8", "9">>

\* the n-th identifier uuidv4() returns; distinct calls return distinct strings
Uuid(n) == <<"u", Digit[n]>>

\* what new Date().toISOString() can return
Times == {<<"T", "1">>}

-----------------------------------------------------------------------------
(* Requests a client can send *)

Methods == {"GET", "POST", "PUT", "DELETE"}

\* "tasks" is /tasks, "task" is /tasks/:id, "static" is a file that exists
\* under src/public (GET / serves index.html), "other" is any other URL
Paths == {"tasks", "task", "static", "other"}

\* Identifiers the server has handed out so far.  uuidv4() draws 122 random
\* bits, so a client does not name an identifier before the server
\* generates it.
IssuedIds(n) == {Uuid(i) : i \in 1..(n - 1)}

\* what a client can put in /tasks/:id: an issued identifier or a string of its own
ParamIds(n) == IssuedIds(n) \cup {<<"x">>}

TitleVals == { Str(<<" ", "\t">>), Str(<<" ", "a", " ">>),
               Str(Rep("a", MAX_TITLE_LENGTH + 1)), Num("5") }

DescVals == { Str(<<" ", "d", "\n">>), Str(Rep("b", MAX_DESC_LENGTH + 1)) }

CompletedVals == { Bool(TRUE) }

StampVals == { Str(<<"T", "0">>) }

BodyVals(k, n) ==
    CASE k = "title"       -> TitleVals
      [] k = "description" -> DescVals
      [] k = "completed"   -> CompletedVals
      [] k = "id"          -> {Str(i) : i \in IssuedIds(n)}
      [] OTHER             -> StampVals

\* the objects of B, and each of them with key k added
WithKey(B, k, n) ==
    B \cup { Spread(b, [x \in {k} |-> v]) : b \in B, v \in BodyVals(k, n) }

\* the JSON objects a request body can hold
Bodies(n) ==
    LET all == WithKey(WithKey(WithKey(WithKey(WithKey(WithKey({EmptyObj},
                   "title", n), "description", n), "completed", n), "id", n),
                   "createdAt", n), "updatedAt", n)
    IN  {b \in all : Cardinality(DOMAIN b) <= MaxBodyKeys}

\* values of req.query.completed: absent, a string, or an array (?completed=a&completed=b)
QueryVals == { Undefined, Str(<<"t", "r", "u", "e">>), Str(<<"f", "a", "l", "s", "e">>),
               Str(<<>>), [t |-> "object", v |-> <<"true", "true">>] }

\* the requests whose handler reads req.body
ReadsBody(m, p) == (m = "POST" /\ p = "tasks") \/ (m = "PUT" /\ p = "task")

NoRes == [status |-> 0, success |-> FALSE, message |-> "", count |-> -1, data |-> <<>>]
NoErr == [message |-> "", statusCode |-> 0]
NoLog == [status |-> 0, method |-> "", path |-> ""]
NoReq == [method |-> "", path |-> "", id |-> <<>>, completed |-> Undefined, body |-> EmptyObj]

\* the connections that send requests at the same time
Clients == {1, 2}

\* a request on a connection: method, params.id, body, and the newTask of POST /tasks
NoCReq == [method |-> "", id |-> <<>>, body |-> EmptyObj, task |-> EmptyObj]

Init ==
    /\ store = <<>>
    /\ nextId = 1
    /\ updates = 0
    /\ pc = "idle"
    /\ req = NoReq
    /\ hooked = FALSE
    /\ res = NoRes
    /\ sent = 0
    /\ err = NoErr
    /\ logLine = NoLog
    /\ io = "none"
    /\ store0 = <<>>
    /\ deleted = {}
    /\ cpc = [c \in Clients |-> "idle"]
    /\ creq = [c \in Clients |-> NoCReq]
    /\ ctasks = [c \in Clients |-> <<>>]
    /\ cres = [c \in Clients |-> 0]
    /\ seen = [c \in Clients |-> <<>>]
    /\ running = 0
    /\ serial = <<>>

\* a request arrives.  A request that can create or update a task is
\* admitted while writes remain.
Arrive ==
    /\ pc = "idle"
    /\ \E m \in Methods, p \in Paths :
         /\ ReadsBody(m, p) => (nextId - 1) + updates < MaxWrites
         /\ \E i \in (IF p = "task" THEN ParamIds(nextId) ELSE {<<>>}),
              q \in (IF p = "tasks" /\ m = "GET" THEN QueryVals ELSE {Undefined}) :
              req' = [method |-> m, path |-> p, id |-> i, completed |-> q, body |-> EmptyObj]
    /\ pc' = "json"
    /\ store0' = store
    /\ logLine' = NoLog
    /\ UNCHANGED <<store, nextId, updates, hooked, res, sent, err, io, deleted>>
    /\ UNCHANGED cvars

-----------------------------------------------------------------------------
(* The middleware chain of src/app.js *)

\* res.status(code).json(body)
Json(code, ok, msg, cnt, d) ==
    [status |-> code, success |-> ok, message |-> msg, count |-> cnt, data |-> d]

\* a middleware or handler passes or throws an error: Express skips to the
\* error-handling middleware
Throw(e) ==
    /\ err' = e
    /\ pc' = "error"
    /\ UNCHANGED <<res, sent>>

\* a middleware or handler writes the response
Respond(r) ==
    /\ res' = r
    /\ sent' = sent + 1
    /\ pc' = "finish"
    /\ err' = err

\* the error body-parser passes to next() for malformed JSON
ParseError == [message |-> "Unexpected token in JSON", statusCode |-> 400]

\* app.use(express.json()): the body is read and parsed.  Malformed JSON is
\* passed to next(err) with statusCode 400; a request without a JSON body
\* gets req.body = {}.  Only the handlers of POST /tasks and PUT /tasks/:id
\* read the body, so the other requests carry no fields.
JsonParse ==
    /\ pc = "json"
    /\ \/ Throw(ParseError) /\ req' = req
       \/ /\ \E b \in (IF ReadsBody(req.method, req.path) THEN Bodies(nextId) ELSE {EmptyObj}) :
               req' = [req EXCEPT !.body = b]
          /\ pc' = "logger"
          /\ UNCHANGED <<err, res, sent>>
    /\ UNCHANGED <<store, nextId, updates, hooked, logLine, io, store0, deleted>>
    /\ UNCHANGED cvars

\* app.use(logger): registers the "finish" listener and calls next()
Logger ==
    /\ pc = "logger"
    /\ hooked' = TRUE
    /\ pc' = "static"
    /\ UNCHANGED <<store, nextId, updates, req, res, sent, err, logLine, io, store0, deleted>>
    /\ UNCHANGED cvars

\* app.use(express.static(public)): answers GET for an existing file, else next()
Static ==
    /\ pc = "static"
    /\ IF req.method = "GET" /\ req.path = "static"
       THEN Respond(Json(200, TRUE, "index.html", -1, <<>>))
       ELSE pc' = "route" /\ UNCHANGED <<res, sent, err>>
    /\ UNCHANGED <<store, nextId, updates, req, hooked, logLine, io, store0, deleted>>
    /\ UNCHANGED cvars

-----------------------------------------------------------------------------
(* Errors.  statusCode 0 stands for an Error object without a statusCode. *)

validationError(message) == [message |-> message, statusCode |-> 400]

\* TaskNotFound without the assignment of statusCode
TaskNotFoundNoStatus == [message |-> "Task not found", statusCode |-> 0]

\* new Error("Task not found") with statusCode = 404
TaskNotFound == [message |-> "Task not found", statusCode |-> 404]

\* calling .trim on a value that has no such method
TypeError == [message |-> "trim is not a function", statusCode |-> 0]

\* fs.readFileSync or JSON.parse failing in readTasks
ReadError == [message |-> "ENOENT: no such file or directory", statusCode |-> 0]

\* fs.writeFileSync failing in writeTasks; the file is left as it was
WriteError == [message |-> "EACCES: permission denied", statusCode |-> 0]

-----------------------------------------------------------------------------
(* Route handlers of src/routes/tasks.js *)

\* tasks.findIndex((t) => t.id === id); 0 stands for -1
FindIndex(tasks, id) ==
    LET hits == {i \in 1..Len(tasks) : Get(tasks[i], "id") = Str(id)}
    IN  IF hits = {} THEN 0 ELSE CHOOSE i \in hits : \A j \in hits : i <= j

\* the comparison the comment of lines 40-45 describes:
\* task.completed === completed === "true"
MatchesChained(task, completed) ==
    Bool(Get(task, "completed") = completed) = Str(<<"t", "r", "u", "e">>)

\* task.completed === (completed === "true")
Matches(task, completed) ==
    Get(task, "completed") = Bool(completed = Str(<<"t", "r", "u", "e">>))

\* the list GET /tasks answers with
Filtered(tasks, completed) ==
    IF completed # Undefined
    THEN SelectSeq(tasks, LAMBDA task : Matches(task, completed))
    ELSE tasks

\* GET /tasks
GetTasks ==
    /\ pc = "route" /\ req.method = "GET" /\ req.path = "tasks"
    /\ \/ io' = "noread" /\ Throw(ReadError)
       \/ /\ io' = "ok"
          /\ LET filtered == Filtered(store, req.completed)
             IN  Respond(Json(200, TRUE, "", Len(filtered), filtered))
    /\ UNCHANGED <<store, nextId, updates, req, hooked, logLine, store0, deleted>>
    /\ UNCHANGED cvars

\* GET /tasks/:id
GetTaskById ==
    /\ pc = "route" /\ req.method = "GET" /\ req.path = "task"
    /\ \/ io' = "noread" /\ Throw(ReadError)
       \/ /\ io' = "ok"
          /\ LET index == FindIndex(store, req.id)
             IN  IF index = 0
                 THEN Throw(TaskNotFound)
                 ELSE Respond(Json(200, TRUE, "", -1, <<store[index]>>))
    /\ UNCHANGED <<store, nextId, updates, req, hooked, logLine, store0, deleted>>
    /\ UNCHANGED cvars

\* lines 78-93 of POST /tasks: the cleaned title and description, or the
\* error the handler throws
PostClean(body) ==
    LET title       == Get(body, "title")
        description == Get(body, "description")
        t0 == IF Truthy(title) THEN title ELSE Str(<<>>)
        d0 == IF Truthy(description) THEN description ELSE Str(<<>>)
    IN  IF ~IsStr(t0) \/ ~IsStr(d0)
        THEN [err |-> TypeError, title |-> <<>>, desc |-> <<>>]
        ELSE LET cleanTitle == Trim(t0.v)
                 cleanDesc  == Trim(d0.v)
                 e == CASE cleanTitle = <<>> -> validationError("Title is required")
                        [] Len(cleanTitle) > MAX_TITLE_LENGTH ->
                               validationError("Title must be 100 characters or less")
                        [] Len(cleanDesc) > MAX_DESC_LENGTH ->
                               validationError("Description must be 500 characters or less")
                        [] OTHER -> NoErr
             IN  [err |-> e, title |-> cleanTitle, desc |-> cleanDesc]

\* NewTask that stamps updatedAt as well
NewTaskStamped(id, cleanTitle, cleanDesc, now) ==
    [id |-> Str(id), title |-> Str(cleanTitle), description |-> Str(cleanDesc),
     completed |-> Bool(FALSE), createdAt |-> Str(now), updatedAt |-> Str(now)]

\* the object literal of lines 95-101
NewTask(id, cleanTitle, cleanDesc, now) ==
    [id |-> Str(id), title |-> Str(cleanTitle), description |-> Str(cleanDesc),
     completed |-> Bool(FALSE), createdAt |-> Str(now)]

\* POST /tasks
PostTask ==
    /\ pc = "route" /\ req.method = "POST" /\ req.path = "tasks"
    /\ LET c == PostClean(req.body)
       IN  IF c.err # NoErr
           THEN Throw(c.err) /\ UNCHANGED <<store, nextId, io>>
           ELSE \E now \in Times, f \in {"noread", "nowrite", "ok"} :
                  LET newTask == NewTask(Uuid(nextId), c.title, c.desc, now)
                  IN  /\ nextId' = nextId + 1
                      /\ io' = f
                      /\ CASE f = "noread"  -> Throw(ReadError) /\ store' = store
                           [] f = "nowrite" -> Throw(WriteError) /\ store' = store
                           [] OTHER -> /\ store' = Append(store, newTask)
                                       /\ Respond(Json(201, TRUE, "", -1, <<newTask>>))
    /\ UNCHANGED <<updates, req, hooked, logLine, store0, deleted>>
    /\ UNCHANGED cvars

\* lines 126-135 of PUT /tasks/:id: req.body after the assignment the
\* handler made to it, and the error it throws, if any
PutCleanTitle(body) ==
    IF "title" \notin DOMAIN body THEN [err |-> NoErr, body |-> body]
    ELSE IF ~IsStr(body["title"]) THEN [err |-> TypeError, body |-> body]
    ELSE LET cleanTitle == Trim(body["title"].v)
         IN  IF cleanTitle = <<>>
             THEN [err |-> validationError("Title cannot be empty"), body |-> body]
             ELSE IF Len(cleanTitle) > MAX_TITLE_LENGTH
             THEN [err |-> validationError("Title must be 100 characters or less"),
                   body |-> body]
             ELSE [err |-> NoErr, body |-> [body EXCEPT !["title"] = Str(cleanTitle)]]

\* PutCleanDesc without the length check
PutCleanDescNoLimit(body) ==
    IF "description" \notin DOMAIN body THEN [err |-> NoErr, body |-> body]
    ELSE IF ~IsStr(body["description"]) THEN [err |-> TypeError, body |-> body]
    ELSE [err |-> NoErr,
          body |-> [body EXCEPT !["description"] = Str(Trim(body["description"].v))]]

\* lines 137-143 of PUT /tasks/:id, likewise
PutCleanDesc(body) ==
    IF "description" \notin DOMAIN body THEN [err |-> NoErr, body |-> body]
    ELSE IF ~IsStr(body["description"]) THEN [err |-> TypeError, body |-> body]
    ELSE LET cleanDesc == Trim(body["description"].v)
         IN  IF Len(cleanDesc) > MAX_DESC_LENGTH
             THEN [err |-> validationError("Description must be 500 characters or less"),
                   body |-> body]
             ELSE [err |-> NoErr, body |-> [body EXCEPT !["description"] = Str(cleanDesc)]]

\* lines 126-143: the title block, then the description block unless the
\* title block threw
PutClean(body) ==
    LET t == PutCleanTitle(body)
    IN  IF t.err # NoErr THEN t ELSE PutCleanDesc(t.body)

\* UpdatedTask without ...tasks[index]: the body replaces the task
UpdatedTaskReplace(task, body, now) ==
    Spread(body, [updatedAt |-> Str(now)])

\* the object literal of lines 148-152
UpdatedTask(task, body, now) ==
    Spread(Spread(task, body), [updatedAt |-> Str(now)])

\* PUT /tasks/:id
PutTask ==
    /\ pc = "route" /\ req.method = "PUT" /\ req.path = "task"
    /\ \/ io' = "noread" /\ Throw(ReadError) /\ UNCHANGED <<store, req, updates>>
       \/ LET index == FindIndex(store, req.id)
              c     == PutClean(req.body)
          IN  IF index = 0
              THEN io' = "ok" /\ Throw(TaskNotFound) /\ UNCHANGED <<store, req, updates>>
              ELSE /\ req' = [req EXCEPT !.body = c.body]
                   /\ IF c.err # NoErr
                      THEN io' = "ok" /\ Throw(c.err) /\ UNCHANGED <<store, updates>>
                      ELSE \E now \in Times, f \in {"nowrite", "ok"} :
                             LET updatedTask == UpdatedTask(store[index], c.body, now)
                             IN  /\ io' = f
                                 /\ IF f = "nowrite"
                                    THEN Throw(WriteError) /\ UNCHANGED <<store, updates>>
                                    ELSE /\ store' = [store EXCEPT ![index] = updatedTask]
                                         /\ updates' = updates + 1
                                         /\ Respond(Json(200, TRUE, "", -1, <<updatedTask>>))
    /\ UNCHANGED <<nextId, hooked, logLine, store0, deleted>>
    /\ UNCHANGED cvars

\* Splice as tasks.splice(index): everything from index on is removed
SpliceToEnd(tasks, index) ==
    SubSeq(tasks, 1, index - 1)

\* tasks after tasks.splice(index, 1)
Splice(tasks, index) ==
    SubSeq(tasks, 1, index - 1) \o SubSeq(tasks, index + 1, Len(tasks))

\* DELETE /tasks/:id
DeleteTask ==
    /\ pc = "route" /\ req.method = "DELETE" /\ req.path = "task"
    /\ \/ io' = "noread" /\ Throw(ReadError) /\ UNCHANGED <<store, deleted>>
       \/ LET index == FindIndex(store, req.id)
          IN  IF index = 0
              THEN io' = "ok" /\ Throw(TaskNotFound) /\ UNCHANGED <<store, deleted>>
              ELSE \E f \in {"nowrite", "ok"} :
                     /\ io' = f
                     /\ IF f = "nowrite"
                        THEN Throw(WriteError) /\ UNCHANGED <<store, deleted>>
                        ELSE /\ store' = Splice(store, index)
                             /\ deleted' = deleted \cup {req.id}
                             /\ Respond(Json(200, TRUE, "Task deleted", -1, <<store[index]>>))
    /\ UNCHANGED <<nextId, updates, req, hooked, logLine, store0>>
    /\ UNCHANGED cvars

\* the method and path the /tasks router has a handler for
Routed(m, p) ==
    \/ p = "tasks" /\ m \in {"GET", "POST"}
    \/ p = "task"  /\ m \in {"GET", "PUT", "DELETE"}

\* no route matches: the request falls through the router
NoRoute ==
    /\ pc = "route" /\ ~Routed(req.method, req.path)
    /\ pc' = "notfound"
    /\ UNCHANGED <<store, nextId, updates, req, hooked, res, sent, err, logLine, io, store0,
                   deleted>>
    /\ UNCHANGED cvars

\* the 404 fallback of src/app.js
NotFound ==
    /\ pc = "notfound"
    /\ Respond(Json(404, FALSE, "Route not found", -1, <<>>))
    /\ UNCHANGED <<store, nextId, updates, req, hooked, logLine, io, store0, deleted>>
    /\ UNCHANGED cvars

\* errorHandler that ignores err.statusCode
errorHandlerAlways500(e) ==
    Json(500, FALSE, IF e.message # "" THEN e.message ELSE "Something went wrong!", -1, <<>>)

\* errorHandler(err, req, res, next): the response it writes
errorHandler(e) ==
    Json(IF e.statusCode # 0 THEN e.statusCode ELSE 500, FALSE,
         IF e.message # "" THEN e.message ELSE "Something went wrong!", -1, <<>>)

\* app.use(errorHandler)
ErrorHandler ==
    /\ pc = "error"
    /\ Respond(errorHandler(err))
    /\ UNCHANGED <<store, nextId, updates, req, hooked, logLine, io, store0, deleted>>
    /\ UNCHANGED cvars

\* the response has been sent: the "finish" listener, when registered, logs
\* it; request and response objects are gone
Finish ==
    /\ pc = "finish"
    /\ logLine' = IF hooked
                  THEN [status |-> res.status, method |-> req.method, path |-> req.path]
                  ELSE logLine
    /\ pc' = "idle"
    /\ req' = NoReq
    /\ hooked' = FALSE
    /\ res' = NoRes
    /\ sent' = 0
    /\ err' = NoErr
    /\ io' = "none"
    /\ store0' = store
    /\ UNCHANGED <<store, nextId, updates, deleted>>
    /\ UNCHANGED cvars

Next ==
    \/ Arrive
    \/ JsonParse
    \/ Logger
    \/ Static
    \/ GetTasks
    \/ GetTaskById
    \/ PostTask
    \/ PutTask
    \/ DeleteTask
    \/ NoRoute
    \/ NotFound
    \/ ErrorHandler
    \/ Finish

Spec == Init /\ [][Next]_vars

-----------------------------------------------------------------------------
(* Two connections at once.  Node runs JavaScript on one thread, and a      *)
(* callback runs until it returns.  express.json() collects the body from   *)
(* the socket asynchronously, so requests overlap while they arrive; once   *)
(* the body is parsed, next() runs logger, express.static, the router and   *)
(* the route handler in one call, and the handler calls readTasks()         *)
(* (fs.readFileSync), writeTasks() (fs.writeFileSync) and res.json() before *)
(* it returns.  src/server.js starts one process with one app.listen().     *)
(* The requests are the mutating ones, with bodies that parse.              *)

\* the variables of the one-request-at-a-time view
svars == <<pc, req, hooked, res, sent, err, logLine, io, store0, deleted>>

RaceBodies == { [title |-> Str(<<" ", "a", " ">>)], [completed |-> Bool(TRUE)] }

\* POST /tasks, PUT /tasks/:id and DELETE /tasks/:id on the ids issued so far
RaceRequests(n) ==
    { [method |-> "POST", id |-> <<>>, body |-> b, task |-> EmptyObj] : b \in RaceBodies }
    \cup { [method |-> "PUT", id |-> i, body |-> b, task |-> EmptyObj] :
             i \in IssuedIds(n), b \in RaceBodies }
    \cup { [method |-> "DELETE", id |-> i, body |-> EmptyObj, task |-> EmptyObj] :
             i \in IssuedIds(n) }

\* a client sends a request on its connection
CArrive(c) ==
    /\ cpc[c] = "idle"
    /\ \E r \in RaceRequests(nextId) :
         /\ r.method \in {"POST", "PUT"} => (nextId - 1) + updates < MaxWrites
         /\ creq' = [creq EXCEPT ![c] = r]
    /\ cpc' = [cpc EXCEPT ![c] = "json"]
    /\ cres' = [cres EXCEPT ![c] = 0]
    /\ seen' = [seen EXCEPT ![c] = store]
    /\ UNCHANGED <<store, nextId, updates, ctasks, running, serial, svars>>

\* the response is written and the callback returns to the event loop
CRespond(c, status) ==
    /\ cres' = [cres EXCEPT ![c] = status]
    /\ cpc' = [cpc EXCEPT ![c] = "idle"]
    /\ creq' = [creq EXCEPT ![c] = NoCReq]
    /\ ctasks' = [ctasks EXCEPT ![c] = <<>>]
    /\ running' = 0

\* the handler throws: errorHandler answers, nothing is written
CFail(c, e) ==
    /\ CRespond(c, errorHandler(e).status)
    /\ UNCHANGED <<store, updates, serial>>

\* readTasks() as an awaited fs.promises.readFile: the handler returns to
\* the event loop until the content is there
AfterReadAwait(c) == 0

\* the connection the thread runs when readTasks() returns:
\* fs.readFileSync blocks, the handler goes on
AfterRead(c) == c

\* the body of connection c is parsed and the thread is free: the chain
\* runs into the route handler, up to the return of readTasks()
CHandler(c) ==
    /\ cpc[c] = "json" /\ running = 0
    /\ LET r     == creq[c]
           clean == PostClean(r.body)
           used  == IF r.method = "POST" THEN nextId + 1 ELSE nextId
       IN  IF r.method = "POST" /\ clean.err # NoErr
           THEN CFail(c, clean.err) /\ nextId' = nextId
           ELSE \/ CFail(c, ReadError) /\ nextId' = used
                \/ /\ \E now \in Times :
                        creq' = IF r.method = "POST"
                                THEN [creq EXCEPT ![c].task =
                                        NewTask(Uuid(nextId), clean.title, clean.desc, now)]
                                ELSE creq
                   /\ nextId' = used
                   /\ ctasks' = [ctasks EXCEPT ![c] = store]
                   /\ cpc' = [cpc EXCEPT ![c] = "read"]
                   /\ running' = AfterRead(c)
                   /\ UNCHANGED <<store, updates, cres, serial>>
    /\ UNCHANGED <<seen, svars>>

\* writeTasks(tasks) and the success response, or writeFileSync throws
CSave(c, tasks, status, ser, upd) ==
    \/ /\ store' = tasks
       /\ serial' = ser
       /\ updates' = updates + upd
       /\ CRespond(c, status)
    \/ CFail(c, WriteError)

\* what PUT /tasks/:id does to a collection
SerialPut(tasks, id, body, now) ==
    LET index == FindIndex(tasks, id)
    IN  IF index = 0 THEN tasks
        ELSE [tasks EXCEPT ![index] = UpdatedTask(tasks[index], body, now)]

\* what DELETE /tasks/:id does to a collection
SerialDelete(tasks, id) ==
    LET index == FindIndex(tasks, id)
    IN  IF index = 0 THEN tasks ELSE Splice(tasks, index)

\* the handler of connection c from the return of readTasks() to its response
CWrite(c) ==
    /\ cpc[c] = "read" /\ running \in {0, c}
    /\ LET r     == creq[c]
           tasks == ctasks[c]
           index == FindIndex(tasks, r.id)
           clean == PutClean(r.body)
       IN  CASE r.method = "POST" ->
                  CSave(c, Append(tasks, r.task), 201, Append(serial, r.task), 0)
             [] r.method = "PUT" ->
                  IF index = 0 THEN CFail(c, TaskNotFound)
                  ELSE IF clean.err # NoErr THEN CFail(c, clean.err)
                  ELSE \E now \in Times :
                         CSave(c, [tasks EXCEPT ![index] =
                                     UpdatedTask(tasks[index], clean.body, now)],
                               200, SerialPut(serial, r.id, clean.body, now), 1)
             [] OTHER ->
                  IF index = 0 THEN CFail(c, TaskNotFound)
                  ELSE CSave(c, Splice(tasks, index), 200, SerialDelete(serial, r.id), 0)
    /\ UNCHANGED <<nextId, seen, svars>>

NextConc ==
    \E c \in Clients :
        \/ CArrive(c)
        \/ CHandler(c)
        \/ CWrite(c)

Conc == Init /\ [][NextConc]_vars

-----------------------------------------------------------------------------
(* Properties.  They are stated on the state in which the response of the  *)
(* request in flight has just been written (pc = "finish"): req is the     *)
(* request, res the response, store0 the collection before the request and *)
(* store the collection after it.                                          *)

\* the handler of the request in flight ran on a parsed body
Answered(m, p) ==
    pc = "finish" /\ req.method = m /\ req.path = p /\ err # ParseError

\* some task of the collection has this id
HasId(tasks, id) == \E i \in 1..Len(tasks) : tasks[i]["id"] = Str(id)

\* the first task of the collection with this id, the one the handlers pick
Target(tasks, id) ==
    CHOOSE i \in 1..Len(tasks) :
        tasks[i]["id"] = Str(id) /\ \A j \in 1..(i - 1) : tasks[j]["id"] # Str(id)

\* C1: a successful PUT /tasks/:id leaves id and createdAt of the stored
\* task as they were, whatever the body carries.
C1_IdAndCreatedAtKept ==
    (Answered("PUT", "task") /\ res.status = 200) =>
        LET i == Target(store0, req.id)
        IN  /\ store[i]["id"] = store0[i]["id"]
            /\ store[i]["createdAt"] = store0[i]["createdAt"]

\* C2: no two tasks of the persisted collection have the same id.
C2_IdsUnique ==
    \A i, j \in 1..Len(store) : i # j => store[i]["id"] # store[j]["id"]

\* C3: once DELETE /tasks/:id has answered 200 for an id, every later
\* GET /tasks/:id for that id that reads the collection answers 404.
C3_DeletedStaysGone ==
    (Answered("GET", "task") /\ io = "ok" /\ req.id \in deleted) => res.status = 404

\* the field is a string, or the body does not have it
StrOrAbsent(body, k) == k \notin DOMAIN body \/ IsStr(body[k])

\* the trimmed text of a string field, empty when the body does not have it
Text(body, k) == IF k \in DOMAIN body THEN Trim(body[k].v) ELSE <<>>

\* title and description are strings where present, and the title is empty
\* or white space (for POST also: missing) or longer than 100 characters,
\* or the description is longer than 500 characters
Rejected(m, body) ==
    /\ StrOrAbsent(body, "title") /\ StrOrAbsent(body, "description")
    /\ \/ /\ m = "POST" \/ "title" \in DOMAIN body
          /\ Text(body, "title") = <<>> \/ Len(Text(body, "title")) > MAX_TITLE_LENGTH
       \/ Len(Text(body, "description")) > MAX_DESC_LENGTH

\* the request in flight is a POST /tasks, or a PUT /tasks/:id on an id
\* of the collection, and its handler has run
CreateOrUpdate ==
    \/ Answered("POST", "tasks")
    \/ Answered("PUT", "task") /\ io = "ok" /\ HasId(store0, req.id)

\* C4: a POST /tasks or a PUT /tasks/:id on an existing id whose title or
\* description fails validation is answered 400 with success false, and the
\* persisted collection is what it was before the request.
C4_ValidationFailureNoEffect ==
    (CreateOrUpdate /\ Rejected(req.method, req.body)) =>
        /\ res.status = 400
        /\ res.success = FALSE
        /\ store = store0

\* a two-field update with a valid title and a description that is too
\* long has been answered 400
C4_Witness ==
    /\ Answered("PUT", "task") /\ io = "ok" /\ HasId(store0, req.id)
    /\ DOMAIN req.body = {"title", "description"}
    /\ req.body["title"] = Str(<<"a">>)
    /\ Len(Text(req.body, "description")) > MAX_DESC_LENGTH
    /\ res.status = 400
    /\ store = store0

\* C5: GET, PUT and DELETE on /tasks/:id for an id no task has are answered
\* 404 with success false and leave the collection as it was, whatever the
\* body of the PUT holds.
C5_UnknownIdIs404 ==
    ( /\ pc = "finish" /\ req.path = "task" /\ req.method \in {"GET", "PUT", "DELETE"}
      /\ err # ParseError /\ io = "ok" /\ ~HasId(store0, req.id) ) =>
        /\ res.status = 404
        /\ res.success = FALSE
        /\ store = store0

\* a PUT with an invalid title on an id no task has, with tasks in the
\* collection, has been answered 404
C5_Witness ==
    /\ Answered("PUT", "task") /\ io = "ok" /\ ~HasId(store0, req.id)
    /\ store0 # <<>>
    /\ Rejected("PUT", req.body)
    /\ res.status = 404

\* C6: a successful PUT /tasks/:id leaves every field that is not in the
\* body as it was on the targeted task, sets updatedAt on it, adds no field
\* the body does not have, and leaves every other task and the order of the
\* collection as they were.
C6_PartialUpdate ==
    (Answered("PUT", "task") /\ res.status = 200) =>
        LET i == Target(store0, req.id)
        IN  /\ Len(store) = Len(store0)
            /\ \A j \in 1..Len(store0) : j # i => store[j] = store0[j]
            /\ DOMAIN store[i] = DOMAIN store0[i] \cup DOMAIN req.body \cup {"updatedAt"}
            /\ \A k \in DOMAIN store0[i] \ (DOMAIN req.body \cup {"updatedAt"}) :
                   store[i][k] = store0[i][k]
            /\ store[i]["updatedAt"] \in {Str(now) : now \in Times}
            /\ res.data = <<store[i]>>

\* the second of two tasks has been updated with a body of only
\* {completed: true}
C6_Witness ==
    /\ Answered("PUT", "task") /\ res.status = 200
    /\ Len(store0) = 2 /\ Target(store0, req.id) = 2
    /\ DOMAIN req.body = {"completed"}
    /\ store[2]["completed"] = Bool(TRUE) /\ store0[2]["completed"] = Bool(FALSE)
    /\ store[2]["title"] = store0[2]["title"]

\* the tasks GET /tasks is to answer with: all of them without the query
\* parameter, else those whose completed is true for "true" and those whose
\* completed is false for any other value
Expected(tasks, completed) ==
    IF completed = Undefined THEN tasks
    ELSE IF completed = Str(<<"t", "r", "u", "e">>)
    THEN SelectSeq(tasks, LAMBDA t : t["completed"] = Bool(TRUE))
    ELSE SelectSeq(tasks, LAMBDA t : t["completed"] = Bool(FALSE))

\* C7: GET /tasks answers 200 with the tasks the completed parameter
\* selects, in collection order, count being their number, and leaves the
\* collection as it was.
C7_ListFilter ==
    (Answered("GET", "tasks") /\ io = "ok") =>
        /\ res.status = 200
        /\ res.data = Expected(store0, req.completed)
        /\ res.count = Len(res.data)
        /\ store = store0

\* completed=true has selected one of two tasks
C7_Witness ==
    /\ Answered("GET", "tasks") /\ io = "ok"
    /\ req.completed = Str(<<"t", "r", "u", "e">>)
    /\ Len(store0) = 2
    /\ res.count = 1

\* C8: a successful POST /tasks answers 201 and appends one task to the
\* collection: with an id no task had, the trimmed title and description,
\* completed false, createdAt set and no updatedAt; the tasks stored before
\* are unchanged and in the same order.
C8_CreateAppends ==
    (Answered("POST", "tasks") /\ res.success) =>
        /\ res.status = 201
        /\ Len(store) = Len(store0) + 1
        /\ SubSeq(store, 1, Len(store0)) = store0
        /\ LET t == store[Len(store)]
           IN  /\ res.data = <<t>>
               /\ DOMAIN t = {"id", "title", "description", "completed", "createdAt"}
               /\ IsStr(t["id"]) /\ t["id"].v # <<>>
               /\ \A j \in 1..Len(store0) : store0[j]["id"] # t["id"]
               /\ t["title"] = Str(Text(req.body, "title"))
               /\ t["description"] = Str(Text(req.body, "description"))
               /\ t["completed"] = Bool(FALSE)
               /\ IsStr(t["createdAt"]) /\ t["createdAt"].v # <<>>

\* a task with a title and a description that needed trimming has been
\* appended to a collection that had a task
C8_Witness ==
    /\ Answered("POST", "tasks") /\ res.status = 201
    /\ Len(store0) = 1
    /\ req.body["title"] = Str(<<" ", "a", " ">>)
    /\ "description" \in DOMAIN req.body
    /\ store[2]["description"] = Str(<<"d">>)

\* C9: a failure raised by a stage or a handler is handed to errorHandler,
\* which can always run and writes the one response of the request: status
\* the statusCode of the failure, or 500 when it has none, success false
\* and the message of the failure.
C9_FailuresAnswered ==
    /\ sent <= 1
    /\ err # NoErr => pc \in {"error", "finish"}
    /\ pc = "error" => (err # NoErr /\ sent = 0 /\ ENABLED ErrorHandler)
    /\ pc = "finish" => sent = 1
    /\ (pc = "finish" /\ err # NoErr) =>
           /\ res.status = (IF err.statusCode # 0 THEN err.statusCode ELSE 500)
           /\ res.success = FALSE
           /\ res.message = err.message

\* a failed write of the data file has been answered 500
C9_Witness ==
    /\ pc = "finish" /\ io = "nowrite"
    /\ err.statusCode = 0 /\ err # NoErr
    /\ res.status = 500 /\ sent = 1

\* C10: every request that gets a response has passed the logging stage,
\* so that its response is logged when it completes.
C10_EveryResponseLogged ==
    pc = "finish" => hooked

\* C12: a successful DELETE /tasks/:id removes exactly one entry of the
\* collection; the entry had the requested id and is the task of the
\* response; the other tasks are unchanged and in the same order.
C12_DeleteRemovesOne ==
    (Answered("DELETE", "task") /\ res.status = 200) =>
        \E i \in 1..Len(store0) :
            /\ store0[i]["id"] = Str(req.id)
            /\ Len(store) = Len(store0) - 1
            /\ \A j \in 1..(i - 1) : store[j] = store0[j]
            /\ \A j \in i..Len(store) : store[j] = store0[j + 1]
            /\ res.data = <<store0[i]>>
            /\ res.success /\ res.message = "Task deleted"

\* the second of three tasks has been deleted
C12_Witness ==
    /\ Answered("DELETE", "task") /\ res.status = 200
    /\ Len(store0) = 3 /\ Target(store0, req.id) = 2
    /\ store = <<store0[1], store0[3]>>

\* C11, as amended: requests served at the same time do not come between a
\* handler's read and its write.  A handler that holds the collection it
\* read is the one the thread runs and holds the persisted collection, and
\* the persisted collection is the acknowledged changes applied one after
\* another: no acknowledged change is lost.
C11_NoLostUpdate ==
    /\ store = serial
    /\ \A c \in Clients : cpc[c] = "read" => (running = c /\ ctasks[c] = store)

\* two creations sent while the collection was empty have both been
\* answered 201, and both tasks are in the collection
C11_Witness ==
    /\ \A c \in Clients : cpc[c] = "idle" /\ cres[c] = 201 /\ seen[c] = <<>>
    /\ Len(store) = 2
    /\ nextId = 3

\* C11, as claimed: a mutating request that has read the collection and not
\* yet written it leaves room for the other request: the handler of a
\* request waiting on the other connection can run, read and write before
\* the first one writes.
C11_WriteBetweenReadAndWrite ==
    \A c, d \in Clients :
        (c # d /\ cpc[c] = "read" /\ cpc[d] = "json") => ENABLED CHandler(d)

====
